---- MODULE Spec2Model ----
(***************************************************************************)
(* Model of the trip planner's route / POI / itinerary engine.             *)
(*                                                                         *)
(* Coordinates are integers on a grid whose step is a multiple of 4, so    *)
(* that the floating-point blend from + (to - from) * i/4 of               *)
(* getIntermediatePoints is exact.  A label is the UTF-16 code unit that   *)
(* String.fromCharCode produces (65 = 'A').  Map markers are heap objects: *)
(* a stop holds the id of its marker, state.markers.stops holds the same   *)
(* ids.                                                                    *)
(***************************************************************************)
EXTENDS Integers, Sequences, FiniteSets, TLC

VARIABLES
    stops,          \* state.route.stops: Seq of [lat, lon, name, marker]
    markerStops,    \* state.markers.stops: Seq of marker ids
    markers,        \* the stop markers on the map: id -> [lat, lon, label, type]
    stopsList,      \* the rendered #stops-list: [placeholder, items: Seq of [label, type, name]]
    polyline,       \* state.route.polyline: [set, onMap, latlngs]
    currentDestination, \* state.currentDestination: [set, lat, lon, name]
    isAddingStop,   \* state.isAddingStop
    geocodes,       \* reverse-geocoding requests in flight, in click order: Seq of [lat, lon]
    tripDays,       \* state.trip.days
    pois,           \* state.markers.pois, the catalog: Seq of [category, icon, budget, lat, lon, opacity]
    itinerary,      \* the rendered #itinerary-content: [rendered, empty, days]
    selectedCategories, \* state.selectedCategories
    budget,         \* state.trip.budget
    busy,           \* the explore button is disabled: an explore is running
    searchPoints,   \* the running explore's searchPoints: Seq of [lat, lon, name]
    fetches,        \* the POI queries in flight: set of [point, lat, lon, category, stale];
                    \* stale: issued by an explore earlier than the last one
    tally,          \* what the queries settled since the last explore began have done:
                    \* [returned: entries answered, failed: one failed, answered: one
                    \* succeeded, late: a stale one ingested]
    probe,          \* two coordinates and the distances measured between them:
                    \* [a, b, done, ab, ba, aa]
    lastCall,       \* the handler that ran last: [op, valid]
    phase,          \* how the stop sequence was built: "appends" (appends only),
                    \* "removed" (appends, then one removal) or "edited"
    signal          \* what the handler that ran last reported (alert, exception) or "none"

routeVars == <<stops, markerStops, markers, stopsList, polyline, phase>>
clickVars == <<isAddingStop, geocodes>>
planVars == <<tripDays, pois, itinerary>>
exploreVars == <<selectedCategories, budget, busy, searchPoints, fetches, tally>>
vars == <<stops, markerStops, markers, stopsList, polyline, currentDestination,
          isAddingStop, geocodes, tripDays, pois, itinerary, selectedCategories,
          budget, busy, searchPoints, fetches, tally, probe, lastCall, phase, signal>>

----------------------------------------------------------------------------
(* Bounds of the model *)

MaxStops == 3       \* stops a route holds at most in Spec
LongStops == 27     \* stops a route holds at most in SpecLong
MaxGeocodes == 2    \* reverse-geocoding requests in flight at most
MaxPlanPois == 7    \* records of the catalog at most in SpecPlan
MaxFetches == 5     \* POI queries one explore issues at most in SpecExplore
MaxPois == 2        \* records one explore ingests at most in SpecExplore

(* Inputs *)

\* geocoder results the user can select (parseFloat of lat, lon; first part of display_name)
Places == { [lat |-> 0, lon |-> 0, name |-> "Delhi"],
            [lat |-> 8, lon |-> 16, name |-> "Agra"] }
\* points of the map the user can click
ClickPoints == { [lat |-> 4, lon |-> 24] }
\* the points clicked in SpecClicks, where the order of the clicks matters
OrderedClickPoints == ClickPoints \cup { [lat |-> 12, lon |-> 8] }
\* first part of the display_name of a reverse-geocoding answer; "" stands for a
\* failed request or an answer without a usable name
GeocodeAnswers == {"Jaipur", ""}
RoleHints == {"start", "end", "stop"}
\* the budget level Math.ceil(Math.random() * 4) is taken to draw for an ingested
\* record (SpecCatalog has catalogs of every level)
DrawnBudgets == {3}
\* values of the budget slider: parseInt(e.target.value)
BudgetValues == {1, 2, 3, 4, 25000}
\* the slider values of SpecSession: below and above the drawn budget level
SessionBudgets == {2, 25000}

NoPlace == [set |-> FALSE, lat |-> 0, lon |-> 0, name |-> ""]
NoPolyline == [set |-> FALSE, onMap |-> FALSE, latlngs |-> <<>>]
NoItinerary == [rendered |-> FALSE, empty |-> FALSE, days |-> <<>>, stops |-> 0,
                distance |-> 0]
NoProbe == [a |-> <<0, 0>>, b |-> <<0, 0>>, done |-> FALSE, ab |-> 0, ba |-> 0, aa |-> 0]
NoTally == [returned |-> 0, failed |-> FALSE, answered |-> FALSE, late |-> FALSE,
            sampled |-> << >>]

----------------------------------------------------------------------------
(* Stop sequence *)

\* String.fromCharCode(n): the code unit n mod 2^16
fromCharCode(n) == n % 65536

\* the route part of the state as one value, so that handlers compose
RouteState == [stops |-> stops, markerStops |-> markerStops, markers |-> markers,
               stopsList |-> stopsList, polyline |-> polyline]

SetRoute(r) ==
    /\ stops' = r.stops
    /\ markerStops' = r.markerStops
    /\ markers' = r.markers
    /\ stopsList' = r.stopsList
    /\ polyline' = r.polyline

\* L.marker(...): a fresh object; the smallest id no live marker has
newMarker(ms) ==
    CHOOSE i \in 0..Cardinality(DOMAIN ms) :
        i \notin DOMAIN ms /\ \A j \in 0..(i - 1) : j \in DOMAIN ms

\* the type updateStopsList derives from the position
listType(index, n) ==
    IF index = 0 THEN "start"
    ELSE IF index = n - 1 /\ n > 1 THEN "end" ELSE ""

updateStopsList(r) ==
    IF Len(r.stops) = 0
    THEN [r EXCEPT !.stopsList = [placeholder |-> TRUE, items |-> <<>>]]
    ELSE [r EXCEPT !.stopsList =
            [placeholder |-> FALSE,
             items |-> [k \in 1..Len(r.stops) |->
                          [label |-> fromCharCode(65 + (k - 1)),
                           type |-> listType(k - 1, Len(r.stops)),
                           name |-> r.stops[k].name]]]]

updateRoute(r) ==
    LET removed == IF r.polyline.set
                   THEN [r EXCEPT !.polyline.onMap = FALSE]
                   ELSE r
    IN IF Len(r.stops) < 2
       THEN removed
       ELSE [removed EXCEPT !.polyline =
                [set |-> TRUE, onMap |-> TRUE,
                 latlngs |-> [k \in 1..Len(r.stops) |->
                                <<r.stops[k].lat, r.stops[k].lon>>]]]

addStop_unlisted(r, lat, lon, name, type) ==
    LET stopIndex == Len(r.stops)
        markerLabel == fromCharCode(65 + stopIndex)
        marker == newMarker(r.markers)
        icon == [lat |-> lat, lon |-> lon, label |-> markerLabel, type |-> type]
        stored == [r EXCEPT
                     !.markers = (marker :> icon) @@ r.markers,
                     !.stops = Append(r.stops, [lat |-> lat, lon |-> lon,
                                                name |-> name, marker |-> marker])]
    IN updateRoute(updateStopsList(stored))

addStop(r, lat, lon, name, type) ==
    LET stopIndex == Len(r.stops)
        markerLabel == fromCharCode(65 + stopIndex)
        marker == newMarker(r.markers)
        icon == [lat |-> lat, lon |-> lon, label |-> markerLabel, type |-> type]
        stored == [r EXCEPT
                     !.markers = (marker :> icon) @@ r.markers,
                     !.stops = Append(r.stops, [lat |-> lat, lon |-> lon,
                                                name |-> name, marker |-> marker]),
                     !.markerStops = Append(r.markerStops, marker)]
    IN updateRoute(updateStopsList(stored))

updateStop_clamped(r, index, lat, lon, name) ==
    IF Len(r.stops) = 0
    THEN r
    ELSE LET at == IF index \in 0..(Len(r.stops) - 1) THEN index ELSE Len(r.stops) - 1
             marker == r.stops[at + 1].marker
             moved == [r EXCEPT
                         !.markers[marker].lat = lat,
                         !.markers[marker].lon = lon,
                         !.stops[at + 1].lat = lat,
                         !.stops[at + 1].lon = lon,
                         !.stops[at + 1].name = name]
         IN updateRoute(updateStopsList(moved))

updateStop_retype(r, index, lat, lon, name) ==
    IF index \notin 0..(Len(r.stops) - 1)
    THEN r
    ELSE LET marker == r.stops[index + 1].marker
             moved == [r EXCEPT
                         !.markers[marker].lat = lat,
                         !.markers[marker].lon = lon,
                         !.markers[marker].type = "end",
                         !.stops[index + 1].lat = lat,
                         !.stops[index + 1].lon = lon,
                         !.stops[index + 1].name = name]
         IN updateRoute(updateStopsList(moved))

updateStop(r, index, lat, lon, name) ==
    IF index \notin 0..(Len(r.stops) - 1)
    THEN r
    ELSE LET marker == r.stops[index + 1].marker
             moved == [r EXCEPT
                         !.markers[marker].lat = lat,
                         !.markers[marker].lon = lon,
                         !.stops[index + 1].lat = lat,
                         !.stops[index + 1].lon = lon,
                         !.stops[index + 1].name = name]
         IN updateRoute(updateStopsList(moved))

splice1_last(s, index) == SubSeq(s, 1, Len(s) - 1)

\* Array.prototype.splice(index, 1)
splice1(s, index) ==
    [k \in 1..(Len(s) - 1) |-> IF k <= index THEN s[k] ELSE s[k + 1]]

\* the icon removeStop gives the marker of the stop now at position i
relabel(m, i) == [m EXCEPT !.label = fromCharCode(65 + i),
                           !.type = IF i = 0 THEN "start" ELSE "stop"]

\* Object identity is up to renaming: once a marker is freed the ids of the live
\* ones are compacted, keeping their order; a reference to a freed marker is -1.
compactId(live, id) ==
    IF id \in live THEN Cardinality({j \in live : j < id}) ELSE -1

removeStop(r, index) ==
    IF index < 0 \/ index >= Len(r.stops)
    THEN r
    ELSE LET gone == r.stops[index + 1].marker
             live == DOMAIN r.markers \ {gone}
             left == splice1(r.stops, index)
             leftMarkers == splice1(r.markerStops, index)
             pos(id) == CHOOSE k \in 1..Len(left) : left[k].marker = id
             icon(id) == IF \E k \in 1..Len(left) : left[k].marker = id
                         THEN relabel(r.markers[id], pos(id) - 1)
                         ELSE r.markers[id]
             spliced == [r EXCEPT
                           !.stops = [k \in 1..Len(left) |->
                                [left[k] EXCEPT !.marker = compactId(live, @)]],
                           !.markerStops = [k \in 1..Len(leftMarkers) |->
                                compactId(live, leftMarkers[k])],
                           !.markers = [n \in 0..(Cardinality(live) - 1) |->
                                icon(CHOOSE id \in live : compactId(live, id) = n)]]
         IN updateRoute(updateStopsList(spliced))

----------------------------------------------------------------------------
(* Handlers of the route *)

Call(op, valid) == [op |-> op, valid |-> valid]

appended == IF phase = "appends" THEN "appends" ELSE "edited"
removed == IF phase = "appends" THEN "removed" ELSE "edited"

InitRoute ==
    /\ stops = <<>>
    /\ markerStops = <<>>
    /\ markers = <<>>
    /\ stopsList = [placeholder |-> TRUE, items |-> <<>>]
    /\ polyline = NoPolyline

Init ==
    /\ InitRoute
    /\ currentDestination = NoPlace
    /\ isAddingStop = FALSE
    /\ geocodes = <<>>
    /\ tripDays = 3
    /\ pois = <<>>
    /\ itinerary = NoItinerary
    /\ selectedCategories = {"food", "cafe", "landmark"}
    /\ budget = 25000
    /\ busy = FALSE
    /\ searchPoints = <<>>
    /\ fetches = {}
    /\ tally = NoTally
    /\ probe = NoProbe
    /\ lastCall = Call("init", TRUE)
    /\ phase = "appends"
    /\ signal = "none"

\* addStop called through the engine's command interface
AddStop(p, type) ==
    /\ SetRoute(addStop(RouteState, p.lat, p.lon, p.name, type))
    /\ lastCall' = Call("addStop", TRUE)
    /\ UNCHANGED probe
    /\ phase' = appended
    /\ signal' = "none"
    /\ UNCHANGED <<currentDestination, clickVars, planVars, exploreVars>>

UpdateStop(index, p) ==
    /\ SetRoute(updateStop(RouteState, index, p.lat, p.lon, p.name))
    /\ lastCall' = Call("updateStop", index \in 0..(Len(stops) - 1))
    /\ UNCHANGED probe
    /\ phase' = IF index \in 0..(Len(stops) - 1) THEN "edited" ELSE phase
    /\ signal' = "none"
    /\ UNCHANGED <<currentDestination, clickVars, planVars, exploreVars>>

RemoveStop(index) ==
    /\ SetRoute(removeStop(RouteState, index))
    /\ lastCall' = Call("removeStop", index \in 0..(Len(stops) - 1))
    /\ UNCHANGED probe
    /\ phase' = IF index \in 0..(Len(stops) - 1) THEN removed ELSE phase
    /\ signal' = "none"
    /\ UNCHANGED <<currentDestination, clickVars, planVars, exploreVars>>

selectLocation(r, p, type) ==
    IF type = "origin"
    THEN IF Len(r.stops) = 0
         THEN addStop(r, p.lat, p.lon, p.name, "start")
         ELSE updateStop(r, 0, p.lat, p.lon, p.name)
    ELSE IF Len(r.stops) = 0
         THEN addStop(r, p.lat, p.lon, p.name, "start")
         ELSE IF Len(r.stops) = 1
         THEN addStop(r, p.lat, p.lon, p.name, "end")
         ELSE updateStop(r, Len(r.stops) - 1, p.lat, p.lon, p.name)

SelectLocation(p, type) ==
    /\ currentDestination' =
          IF type = "origin" THEN currentDestination
          ELSE [set |-> TRUE, lat |-> p.lat, lon |-> p.lon, name |-> p.name]
    /\ SetRoute(selectLocation(RouteState, p, type))
    /\ lastCall' = Call("selectLocation", TRUE)
    /\ UNCHANGED probe
    /\ phase' = IF Len(stops) = 0 \/ (type # "origin" /\ Len(stops) = 1)
                THEN appended ELSE "edited"
    /\ signal' = "none"
    /\ UNCHANGED <<clickVars, planVars, exploreVars>>

EnableAddStopMode ==
    /\ isAddingStop' = TRUE
    /\ lastCall' = Call("enableAddStopMode", TRUE)
    /\ UNCHANGED probe
    /\ signal' = "none"
    /\ UNCHANGED <<routeVars, currentDestination, geocodes, planVars, exploreVars>>

disableAddStopMode_stays == TRUE

\* state.isAddingStop = false
disableAddStopMode == FALSE

HandleMapClick(c) ==
    /\ IF isAddingStop
       THEN /\ geocodes' = Append(geocodes, [lat |-> c.lat, lon |-> c.lon])
            /\ isAddingStop' = disableAddStopMode
       ELSE UNCHANGED <<geocodes, isAddingStop>>
    /\ lastCall' = Call("handleMapClick", isAddingStop)
    /\ UNCHANGED probe
    /\ signal' = "none"
    /\ UNCHANGED <<routeVars, currentDestination, planVars, exploreVars>>

reverseGeocode_noFallback(answer) == answer

\* reverseGeocode's answer: the first part of display_name, or the fallback
reverseGeocode(answer) == IF answer = "" THEN "Unknown location" ELSE answer

\* the continuation of handleMapClick's reverseGeocode(...).then: request k settles
GeocodeSettle(k, answer) ==
    /\ geocodes' = splice1(geocodes, k - 1)
    /\ SetRoute(addStop(RouteState, geocodes[k].lat, geocodes[k].lon,
                        reverseGeocode(answer), "stop"))
    /\ lastCall' = Call("addStop", TRUE)
    /\ UNCHANGED probe
    /\ phase' = appended
    /\ signal' = "none"
    /\ UNCHANGED <<currentDestination, isAddingStop, planVars, exploreVars>>

----------------------------------------------------------------------------
(* Distances.  The floating-point numbers of the code are fixed-point numbers
   here: a number x is the integer nearest to x * Unit.  Every operation rounds
   to the nearest number, the same way for x and -x, as IEEE arithmetic does.
   The series are good for the coordinates of the model (angles below 1 rad). *)

Unit == 32768

\* the integer nearest to a / b, for b > 0
nearest(a, b) ==
    IF a >= 0 THEN (a + b \div 2) \div b ELSE 0 - (((0 - a) + b \div 2) \div b)

\* x * y
times(x, y) == nearest(x * y, Unit)

\* degrees * Math.PI / 180; Math.PI is 102944 / Unit
radians(degrees) == nearest(degrees * 102944, 180)

\* Math.sin(x)
sin(x) ==
    LET x2 == times(x, x)
        x3 == times(x2, x)
        x5 == times(x3, x2)
        x7 == times(x5, x2)
    IN x - nearest(x3, 6) + nearest(x5, 120) - nearest(x7, 5040)

\* Math.cos(x)
cos(x) ==
    LET x2 == times(x, x)
        x4 == times(x2, x2)
        x6 == times(x4, x2)
    IN Unit - nearest(x2, 2) + nearest(x4, 24) - nearest(x6, 720)

\* the largest r in lo..hi with r * r <= n
RECURSIVE root(_, _, _)
root(n, lo, hi) ==
    IF lo >= hi THEN lo
    ELSE LET mid == (lo + hi + 1) \div 2
         IN IF mid * mid <= n THEN root(n, mid, hi) ELSE root(n, lo, mid - 1)

\* Math.sqrt(x) for 0 <= x <= 1
sqrt(x) == root(x * Unit, 0, Unit)

\* Math.atan2(y, x) for 0 <= y <= x, x > 0
atan2(y, x) ==
    LET t == nearest(y * Unit, x)
        t2 == times(t, t)
        t3 == times(t2, t)
        t5 == times(t3, t2)
        t7 == times(t5, t2)
        t9 == times(t7, t2)
    IN t - nearest(t3, 3) + nearest(t5, 5) - nearest(t7, 7) + nearest(t9, 9)

haversineDistance_oneLatitude(lat1, lon1, lat2, lon2) ==
    LET dLat == radians(lat2 - lat1)
        dLon == radians(lon2 - lon1)
        a == times(sin(nearest(dLat, 2)), sin(nearest(dLat, 2)))
             + times(times(times(cos(radians(lat1)), cos(radians(lat1))),
                           sin(nearest(dLon, 2))), sin(nearest(dLon, 2)))
        c == 2 * atan2(sqrt(a), sqrt(Unit - a))
    IN 6371 * c

\* R * c, in km (fixed point)
haversineDistance(lat1, lon1, lat2, lon2) ==
    LET dLat == radians(lat2 - lat1)
        dLon == radians(lon2 - lon1)
        a == times(sin(nearest(dLat, 2)), sin(nearest(dLat, 2)))
             + times(times(times(cos(radians(lat1)), cos(radians(lat2))),
                           sin(nearest(dLon, 2))), sin(nearest(dLon, 2)))
        c == 2 * atan2(sqrt(a), sqrt(Unit - a))
    IN 6371 * c

\* haversineDistance between the coordinates a stop can have, computed once
haversineDistances ==
    LET latlngs == { <<p.lat, p.lon>> : p \in Places \cup OrderedClickPoints }
    IN [from \in latlngs, to \in latlngs |->
           haversineDistance(from[1], from[2], to[1], to[2])]

\* the loop of calculateRouteDistance from index i on: totalDistance
RECURSIVE totalDistance(_, _)
totalDistance(route, i) ==
    IF i >= Len(route) THEN 0
    ELSE haversineDistances[<<route[i].lat, route[i].lon>>,
                            <<route[i + 1].lat, route[i + 1].lon>>]
         + totalDistance(route, i + 1)

calculateRouteDistance_skipLast(route) ==
    IF Len(route) < 2 THEN 0
    ELSE nearest(totalDistance(SubSeq(route, 1, Len(route) - 1), 1), Unit)

\* Math.round(totalDistance), whole km
calculateRouteDistance(route) ==
    IF Len(route) < 2 THEN 0 ELSE nearest(totalDistance(route, 1), Unit)

\* the coordinates distances are measured between in SpecGeo
GeoPoints == { <<lat, lon>> : lat \in {-8, 0, 8, 20}, lon \in {-16, 0, 16, 24} }

\* haversineDistance applied to a and b, to b and a, to a and a
Measure ==
    /\ ~probe.done
    /\ probe' = [probe EXCEPT
                   !.done = TRUE,
                   !.ab = haversineDistance(probe.a[1], probe.a[2], probe.b[1], probe.b[2]),
                   !.ba = haversineDistance(probe.b[1], probe.b[2], probe.a[1], probe.a[2]),
                   !.aa = haversineDistance(probe.a[1], probe.a[2], probe.a[1], probe.a[2])]
    /\ UNCHANGED <<routeVars, currentDestination, clickVars, planVars, exploreVars,
                   lastCall, signal>>

----------------------------------------------------------------------------
(* Itinerary planner *)

POI_TYPES ==
    [food     |-> [icon |-> "plate",   name |-> "Restaurant"],
     cafe     |-> [icon |-> "cup",     name |-> "Cafe"],
     shop     |-> [icon |-> "bags",    name |-> "Shop"],
     luxury   |-> [icon |-> "gem",     name |-> "Luxury"],
     landmark |-> [icon |-> "temple",  name |-> "Landmark"],
     hotel    |-> [icon |-> "hotel",   name |-> "Hotel"]]

Categories == DOMAIN POI_TYPES

\* Math.ceil(n / d) for n >= 0 and d >= 1
ceilDiv(n, d) == (n + d - 1) \div d

\* Array.prototype.slice(from, to) with 0 <= from
slice(s, from, to) ==
    LET lo == IF from < Len(s) THEN from ELSE Len(s)
        hi == IF to < Len(s) THEN to ELSE Len(s)
    IN [k \in 1..(hi - lo) |-> s[lo + k]]

\* a || b on strings
orElse(a, b) == IF a = "" THEN b ELSE a

\* the pois array of generateItinerary: name is what the regular expression
\* />([^<]+)</ finds in the marker's icon html, which is the category's icon
itineraryPois(catalog) ==
    [k \in 1..Len(catalog) |->
        [kind |-> "poi",
         name |-> orElse(catalog[k].icon, "Place"),
         typeName |-> POI_TYPES[catalog[k].category].name,
         idx |-> k]]

poisPerDay_floor(n, days) == n \div days

poisPerDay(n, days) == ceilDiv(n, days)

dayPois_shortSlice(all, day, perDay) ==
    slice(all, (day - 1) * perDay, (day - 1) * perDay + perDay - 1)

\* pois.slice(startIdx, startIdx + poisPerDay)
dayPois(all, day, perDay) == slice(all, (day - 1) * perDay, (day - 1) * perDay + perDay)

skipDay_never(places) == FALSE

\* if (dayPois.length === 0) continue
skipDay(places) == Len(places) = 0

startPlaces_everyDay(route, day) ==
    IF Len(route) > 0
    THEN << [kind |-> "start", name |-> orElse(route[1].name, "Start"),
             typeName |-> "Starting Point", idx |-> 0] >>
    ELSE << >>

startPlaces(route, day) ==
    IF day = 1 /\ Len(route) > 0
    THEN << [kind |-> "start", name |-> orElse(route[1].name, "Start"),
             typeName |-> "Starting Point", idx |-> 0] >>
    ELSE << >>

endPlaces(route, day, days) ==
    IF day = days /\ Len(route) > 1
    THEN << [kind |-> "end", name |-> orElse(route[Len(route)].name, "Destination"),
             typeName |-> "Final Destination", idx |-> 0] >>
    ELSE << >>

\* the loop for (let day = 1; day <= tripDays; day++), from `day` on
RECURSIVE itineraryDays(_, _, _, _)
itineraryDays(day, route, all, days) ==
    IF day > days
    THEN << >>
    ELSE LET places == dayPois(all, day, poisPerDay(Len(all), days))
             entry == [day |-> day,
                       places |-> startPlaces(route, day) \o places
                                  \o endPlaces(route, day, days)]
         IN (IF skipDay(places) THEN << >> ELSE << entry >>)
            \o itineraryDays(day + 1, route, all, days)

nothingToPlan_never(all) == FALSE

\* if (pois.length === 0): the 'No places found to add to itinerary' result
nothingToPlan(all) == Len(all) = 0

\* stops and distance are the header's stop count and route distance in km
generateItinerary(route, catalog, days) ==
    LET all == itineraryPois(catalog)
        routeDistance == calculateRouteDistance(route)
    IN IF nothingToPlan(all)
       THEN [rendered |-> TRUE, empty |-> TRUE, days |-> << >>,
             stops |-> Len(route), distance |-> routeDistance]
       ELSE [rendered |-> TRUE, empty |-> FALSE,
             days |-> itineraryDays(1, route, all, days),
             stops |-> Len(route), distance |-> routeDistance]

adjustDays_noFloor(days, delta) ==
    IF days + delta < 30 THEN days + delta ELSE 30

\* Math.max(1, Math.min(30, days + delta))
adjustDays(days, delta) ==
    LET capped == IF days + delta < 30 THEN days + delta ELSE 30
    IN IF capped > 1 THEN capped ELSE 1

AdjustDays(delta) ==
    /\ tripDays' = adjustDays(tripDays, delta)
    /\ lastCall' = Call("adjustDays", TRUE)
    /\ UNCHANGED probe
    /\ signal' = "none"
    /\ UNCHANGED <<routeVars, currentDestination, clickVars, pois, itinerary, exploreVars>>

\* the planner run on the current route, catalog and day count
GenerateItinerary ==
    /\ itinerary' = generateItinerary(stops, pois, tripDays)
    /\ lastCall' = Call("generateItinerary", TRUE)
    /\ UNCHANGED probe
    /\ signal' = "none"
    /\ UNCHANGED <<routeVars, currentDestination, clickVars, tripDays, pois, exploreVars>>

\* a catalog of n records as explores leave it
planCatalog(n) ==
    LET cats == <<"food", "cafe", "landmark">>
    IN [k \in 1..n |->
          [category |-> cats[((k - 1) % 3) + 1],
           icon |-> POI_TYPES[cats[((k - 1) % 3) + 1]].icon,
           budget |-> ((k - 1) % 4) + 1,
           lat |-> 4 * k, lon |-> 0, opacity |-> 5]]

\* a route of n stops as place selection and map clicks leave it
RECURSIVE planRoute(_)
planRoute(n) ==
    IF n = 0
    THEN [stops |-> <<>>, markerStops |-> <<>>, markers |-> <<>>,
          stopsList |-> [placeholder |-> TRUE, items |-> <<>>],
          polyline |-> NoPolyline]
    ELSE LET p == CHOOSE q \in Places : (q.name = "Delhi") = (n % 2 = 1)
         IN addStop(planRoute(n - 1), p.lat, p.lon, p.name,
                    IF n = 1 THEN "start" ELSE IF n = 2 THEN "end" ELSE "stop")

\* The planner on its own: any catalog size, any route length, any day count.
InitPlan ==
    /\ \E n \in 0..MaxStops :
          /\ stops = planRoute(n).stops
          /\ markerStops = planRoute(n).markerStops
          /\ markers = planRoute(n).markers
          /\ stopsList = planRoute(n).stopsList
          /\ polyline = planRoute(n).polyline
    /\ currentDestination = NoPlace
    /\ isAddingStop = FALSE
    /\ geocodes = <<>>
    /\ tripDays = 3
    /\ \E n \in 0..MaxPlanPois : pois = planCatalog(n)
    /\ itinerary = NoItinerary
    /\ selectedCategories = {"food", "cafe", "landmark"}
    /\ budget = 25000
    /\ busy = FALSE
    /\ searchPoints = <<>>
    /\ fetches = {}
    /\ tally = NoTally
    /\ probe = NoProbe
    /\ lastCall = Call("init", TRUE)
    /\ phase = "appends"
    /\ signal = "none"

NextPlan ==
    \/ \E delta \in {-1, 1} : AdjustDays(delta)
    \/ GenerateItinerary

SpecPlan == InitPlan /\ [][NextPlan]_vars

----------------------------------------------------------------------------
(* Explore: sampling the route, querying, ingesting *)

\* Math.round(a / b) for a >= 0 and b > 0
roundDiv(a, b) == (2 * a + b) \div (2 * b)

\* En Route (25%), (50%), (75%): the percentage Math.round(fraction * 100)
enRoute(percent) == <<"En Route", percent>>

getIntermediatePoints_noPlusOne(from, to, numPoints) ==
    [i \in 1..numPoints |->
        [lat |-> from.lat + ((to.lat - from.lat) * i) \div numPoints,
         lon |-> from.lon + ((to.lon - from.lon) * i) \div numPoints,
         name |-> enRoute(roundDiv(100 * i, numPoints))]]

\* fraction = i / (numPoints + 1); the coordinates lie on a grid on which
\* (to - from) * fraction is a whole number
getIntermediatePoints(from, to, numPoints) ==
    [i \in 1..numPoints |->
        [lat |-> from.lat + ((to.lat - from.lat) * i) \div (numPoints + 1),
         lon |-> from.lon + ((to.lon - from.lon) * i) \div (numPoints + 1),
         name |-> enRoute(roundDiv(100 * i, numPoints + 1))]]

\* the intermediate points of the segments i.. of the route, in order
RECURSIVE segmentPoints(_, _)
segmentPoints(route, i) ==
    IF i >= Len(route)
    THEN << >>
    ELSE getIntermediatePoints(route[i], route[i + 1], 3)
         \o segmentPoints(route, i + 1)

point(p) == [lat |-> p.lat, lon |-> p.lon, name |-> p.name]

sample_noFallback(route, destination) ==
    IF Len(route) > 0
    THEN [k \in 1..Len(route) |-> point(route[k])] \o segmentPoints(route, 1)
    ELSE << >>

\* the searchPoints of explorePlaces
sample(route, destination) ==
    IF Len(route) > 0
    THEN [k \in 1..Len(route) |-> point(route[k])] \o segmentPoints(route, 1)
    ELSE IF destination.set THEN << point(destination) >> ELSE << >>

\* createPOIMarker for the elements of one answer, each with its drawn budget;
\* opacity is counted in fifths: 5 is Leaflet's default 1, 1 is 0.2
createPOIMarkers(elements, category) ==
    [k \in 1..Len(elements) |->
        [category |-> category, icon |-> POI_TYPES[category].icon,
         budget |-> elements[k].budget,
         lat |-> elements[k].lat, lon |-> elements[k].lon, opacity |-> 5]]

filterPOIsByBudget_strict(catalog, level) ==
    [k \in 1..Len(catalog) |->
        [catalog[k] EXCEPT !.opacity =
            IF (IF catalog[k].budget = 0 THEN 2 ELSE catalog[k].budget) < level
            THEN 5 ELSE 1]]

\* marker.setOpacity(markerBudget <= state.trip.budget ? 1 : 0.2)
filterPOIsByBudget(catalog, level) ==
    [k \in 1..Len(catalog) |->
        [catalog[k] EXCEPT !.opacity =
            IF (IF catalog[k].budget = 0 THEN 2 ELSE catalog[k].budget) <= level
            THEN 5 ELSE 1]]

ToggleCategory(c) ==
    /\ selectedCategories' =
          IF c \in selectedCategories THEN selectedCategories \ {c}
          ELSE selectedCategories \cup {c}
    /\ lastCall' = Call("toggleCategory", TRUE)
    /\ UNCHANGED probe
    /\ signal' = "none"
    /\ UNCHANGED <<routeVars, currentDestination, clickVars, planVars,
                   budget, busy, searchPoints, fetches, tally>>

clearPOIMarkers_keep(catalog) == catalog

\* state.markers.pois = []
clearPOIMarkers(catalog) == << >>

noDestination_never(route, destination) == FALSE

\* if (state.route.stops.length === 0 && !state.currentDestination)
noDestination(route, destination) == Len(route) = 0 /\ ~destination.set

fetchPromises_centerOnly(points, categories) ==
    { [point |-> k, lat |-> points[k].lat, lon |-> points[k].lon,
       category |-> c, stale |-> FALSE] :
      k \in {j \in 1..Len(points) : j = 1}, c \in categories }

\* for (const point of searchPoints) for (const category of state.selectedCategories)
\*     fetchPromises.push(fetchPOIs(point.lat, point.lon, category))
fetchPromises(points, categories) ==
    { [point |-> k, lat |-> points[k].lat, lon |-> points[k].lon,
       category |-> c, stale |-> FALSE] :
      k \in 1..Len(points), c \in categories }

exploreEnabled_always == TRUE

\* the click handler of #explore-btn runs while the button is not disabled
exploreEnabled == ~busy

allSettled_none(pending) == TRUE

\* await Promise.all(fetchPromises): every promise of the explore is fulfilled
allSettled(pending) == \A q \in pending : q.stale

fetchRejects_uncaught(ok) == ~ok

\* fetchPOIs catches what fetch, response.json() and the ingestion throw: its
\* promise is fulfilled whether the query succeeded or not
fetchRejects(ok) == FALSE

ingest_dedup(catalog, elements, category) ==
    catalog \o SelectSeq(createPOIMarkers(elements, category),
                         LAMBDA m : \A k \in 1..Len(catalog) :
                                       <<catalog[k].lat, catalog[k].lon>> # <<m.lat, m.lon>>)

\* data.elements.forEach(poi => createPOIMarker(poi, category)): one push per element
ingest(catalog, elements, category) == catalog \o createPOIMarkers(elements, category)

toggleCategoryMarkers_delete(catalog, category, visible) ==
    IF visible THEN catalog
    ELSE SelectSeq(catalog, LAMBDA m : m.category # category)

\* marker.setOpacity(visible ? 1 : 0) on the markers of the category
toggleCategoryMarkers(catalog, category, visible) ==
    [k \in 1..Len(catalog) |->
        IF catalog[k].category = category
        THEN [catalog[k] EXCEPT !.opacity = IF visible THEN 5 ELSE 0]
        ELSE catalog[k]]

\* the click handler of a .widget-checkbox
ToggleCategoryMarkers(c, visible) ==
    /\ pois' = toggleCategoryMarkers(pois, c, visible)
    /\ lastCall' = Call("toggleCategoryMarkers", TRUE)
    /\ UNCHANGED probe
    /\ signal' = "none"
    /\ UNCHANGED <<routeVars, currentDestination, clickVars, tripDays, itinerary,
                   exploreVars>>

HandleBudgetChange(value) ==
    /\ budget' = value
    /\ pois' = filterPOIsByBudget(pois, value)
    /\ lastCall' = Call("handleBudgetChange", TRUE)
    /\ UNCHANGED probe
    /\ signal' = "none"
    /\ UNCHANGED <<routeVars, currentDestination, clickVars, tripDays, itinerary,
                   selectedCategories, busy, searchPoints, fetches, tally>>

\* explorePlaces up to await Promise.all: every query is issued
ExplorePlaces ==
    IF noDestination(stops, currentDestination)
    THEN /\ signal' = "Please select a destination first"
         /\ lastCall' = Call("explorePlaces", FALSE)
         /\ UNCHANGED probe
         /\ UNCHANGED <<routeVars, currentDestination, clickVars, planVars, exploreVars>>
    ELSE /\ busy' = TRUE
         /\ pois' = clearPOIMarkers(pois)
         /\ searchPoints' = sample(stops, currentDestination)
         /\ fetches' = { [q EXCEPT !.stale = TRUE] : q \in fetches }
                       \cup fetchPromises(searchPoints', selectedCategories)
         /\ tally' = [NoTally EXCEPT !.sampled = [k \in 1..Len(stops) |-> point(stops[k])]]
         /\ signal' = "none"
         /\ lastCall' = Call("explorePlaces", TRUE)
         /\ UNCHANGED probe
         /\ UNCHANGED <<routeVars, currentDestination, clickVars, tripDays, itinerary,
                        selectedCategories, budget>>

exploreFinally_skipped(disabled) == disabled

\* finally { btn.innerHTML = ...; btn.disabled = false; }
exploreFinally(disabled) == FALSE

\* fetchPOIs after its await: the query q is answered with `elements`, or fails
FetchSettle(q, ok, elements) ==
    /\ fetches' = fetches \ {q}
    /\ pois' = IF ok THEN ingest(pois, elements, q.category) ELSE pois
    /\ tally' = [returned |-> tally.returned + (IF ok THEN Len(elements) ELSE 0),
                 failed |-> tally.failed \/ ~ok,
                 answered |-> tally.answered \/ ok,
                 late |-> tally.late \/ (ok /\ q.stale /\ Len(elements) > 0),
                 sampled |-> tally.sampled]
    \* a rejection would reach the catch and the finally of explorePlaces
    /\ busy' = IF fetchRejects(ok) /\ ~q.stale THEN exploreFinally(busy) ELSE busy
    /\ signal' = IF fetchRejects(ok) /\ ~q.stale /\ busy
                 THEN "Error fetching places. Please try again." ELSE "none"
    /\ lastCall' = Call("fetchPOIs", ok)
    /\ UNCHANGED probe
    /\ UNCHANGED <<routeVars, currentDestination, clickVars, tripDays, itinerary,
                   selectedCategories, budget, searchPoints>>

noPlacesFound_never(catalog) == FALSE

\* if (state.markers.pois.length === 0) alert('No places found in this area. ...')
noPlacesFound(catalog) == Len(catalog) = 0

\* explorePlaces after await Promise.all
ExploreFinish ==
    /\ signal' = IF noPlacesFound(pois) THEN "No places found in this area" ELSE "none"
    /\ pois' = filterPOIsByBudget(pois, budget)
    /\ itinerary' = generateItinerary(stops, pois', tripDays)
    /\ busy' = exploreFinally(busy)
    /\ lastCall' = Call("generateItinerary", TRUE)
    /\ UNCHANGED probe
    /\ UNCHANGED <<routeVars, currentDestination, clickVars, tripDays,
                   selectedCategories, budget, searchPoints, fetches, tally>>

\* the routes of at most n stops over the places
RECURSIVE routesUpTo(_)
routesUpTo(n) ==
    IF n = 0
    THEN { planRoute(0) }
    ELSE routesUpTo(n - 1) \cup
         { addStop(r, p.lat, p.lon, p.name,
                   IF Len(r.stops) = 0 THEN "start"
                   ELSE IF Len(r.stops) = 1 THEN "end" ELSE "stop") :
           r \in { x \in routesUpTo(n - 1) : Len(x.stops) = n - 1 }, p \in Places }

\* the answers of the POI source: elements with the budget drawn for each
Answers ==
    { << >> } \cup { << [lat |-> 4, lon |-> 8, budget |-> b] >> : b \in DrawnBudgets }

\* Explores of a route that place selection and stop edits have left.
InitExplore ==
    /\ \E r \in routesUpTo(MaxStops) :
          /\ stops = r.stops
          /\ markerStops = r.markerStops
          /\ markers = r.markers
          /\ stopsList = r.stopsList
          /\ polyline = r.polyline
    /\ currentDestination \in
          {NoPlace} \cup { [set |-> TRUE, lat |-> p.lat, lon |-> p.lon, name |-> p.name] :
                           p \in {q \in Places : q.name = "Agra"} }
    \* the destination selected last is the last stop, unless its stop was removed
    /\ Len(stops) > 0 =>
          (currentDestination.set <=> stops[Len(stops)].name = currentDestination.name)
    /\ isAddingStop = FALSE
    /\ geocodes = <<>>
    /\ tripDays = 3
    /\ pois = <<>>
    /\ itinerary = NoItinerary
    /\ selectedCategories = {"food", "cafe", "landmark"}
    /\ budget = 25000
    /\ busy = FALSE
    /\ searchPoints = <<>>
    /\ fetches = {}
    /\ tally = NoTally
    /\ probe = NoProbe
    /\ lastCall = Call("init", TRUE)
    /\ phase = "appends"
    /\ signal = "none"

NextExplore ==
    \/ \E c \in {"food", "cafe", "landmark"} : ToggleCategory(c)
    \/ /\ exploreEnabled
       /\ Len(sample(stops, currentDestination)) * Cardinality(selectedCategories)
             <= MaxFetches
       /\ ExplorePlaces
    \/ \E q \in fetches, elements \in Answers :
          Len(pois) + Len(elements) <= MaxPois /\ FetchSettle(q, TRUE, elements)
    \/ \E q \in fetches : FetchSettle(q, FALSE, << >>)
    \/ busy /\ allSettled(fetches) /\ ExploreFinish

SpecExplore == InitExplore /\ [][NextExplore]_vars

\* Explores of no route and of the route from Delhi to Agra, with the sidebar's
\* cafe and landmark checkboxes in use.
InitLive ==
    /\ InitExplore
    /\ [k \in 1..Len(stops) |-> stops[k].name] \in {<< >>, <<"Delhi", "Agra">>}

NextLive ==
    \/ \E c \in {"cafe", "landmark"} : ToggleCategory(c)
    \/ /\ exploreEnabled
       /\ Len(sample(stops, currentDestination)) * Cardinality(selectedCategories)
             <= MaxFetches
       /\ ExplorePlaces
    \/ \E q \in fetches, elements \in Answers :
          Len(pois) + Len(elements) <= MaxPois /\ FetchSettle(q, TRUE, elements)
    \/ \E q \in fetches : FetchSettle(q, FALSE, << >>)
    \/ busy /\ allSettled(fetches) /\ ExploreFinish

\* Every query that is in flight settles in the end, and the continuation of
\* await Promise.all runs once it can: the event loop leaves no ready
\* continuation waiting for ever.
SpecExploreLive ==
    /\ InitLive
    /\ [][NextLive]_vars
    /\ WF_vars(\E q \in fetches : FetchSettle(q, FALSE, << >>))
    /\ WF_vars(busy /\ allSettled(fetches) /\ ExploreFinish)

\* A session from the start: origin and destination are selected, stops are
\* removed, the place is explored, the budget slider and the widget's
\* checkboxes are used.
NextSession ==
    \/ \E p \in {q \in Places : q.name = "Agra"}, type \in {"origin", "destination"} :
          SelectLocation(p, type)
    \/ Len(stops) > 0 /\ RemoveStop(0)
    \/ /\ exploreEnabled
       /\ Len(sample(stops, currentDestination)) * Cardinality(selectedCategories)
             <= MaxFetches
       /\ ExplorePlaces
    \/ \E q \in fetches, elements \in Answers :
          Len(pois) + Len(elements) <= MaxPois /\ FetchSettle(q, TRUE, elements)
    \/ \E q \in fetches : FetchSettle(q, FALSE, << >>)
    \/ busy /\ allSettled(fetches) /\ ExploreFinish
    \/ \E value \in SessionBudgets : HandleBudgetChange(value)
    \/ \E c \in {"food"}, visible \in BOOLEAN : ToggleCategoryMarkers(c, visible)

SpecSession == Init /\ [][NextSession]_vars

\* The budget filter and the visibility toggles on their own: any catalog of
\* InitPlan, any slider value.
NextCatalog ==
    \/ \E value \in BudgetValues : HandleBudgetChange(value)
    \/ \E c \in {"food", "cafe", "landmark"}, visible \in BOOLEAN :
          ToggleCategoryMarkers(c, visible)

SpecCatalog == InitPlan /\ [][NextCatalog]_vars

\* The distance function on its own: any two of the points.
InitGeo ==
    /\ InitRoute
    /\ currentDestination = NoPlace
    /\ isAddingStop = FALSE
    /\ geocodes = <<>>
    /\ tripDays = 3
    /\ pois = <<>>
    /\ itinerary = NoItinerary
    /\ selectedCategories = {"food", "cafe", "landmark"}
    /\ budget = 25000
    /\ busy = FALSE
    /\ searchPoints = <<>>
    /\ fetches = {}
    /\ tally = NoTally
    /\ \E a \in GeoPoints, b \in GeoPoints : probe = [NoProbe EXCEPT !.a = a, !.b = b]
    /\ lastCall = Call("init", TRUE)
    /\ phase = "appends"
    /\ signal = "none"

NextGeo == Measure

SpecGeo == InitGeo /\ [][NextGeo]_vars

\* The program as its user drives it: place selection, add-stop mode and map
\* clicks, the remove buttons of the stop list (removeStop is also a global,
\* callable with any index).
Next ==
    \/ \E p \in Places, type \in {"origin", "destination"} : SelectLocation(p, type)
    \/ EnableAddStopMode
    \/ \E c \in ClickPoints :
          (isAddingStop => Len(geocodes) < MaxGeocodes) /\ HandleMapClick(c)
    \/ \E k \in 1..Len(geocodes), answer \in GeocodeAnswers :
          Len(stops) < MaxStops /\ GeocodeSettle(k, answer)
    \/ \E index \in (-1)..MaxStops : RemoveStop(index)

Spec == Init /\ [][Next]_vars

\* The stop sequence behind the engine's command interface: addStop, updateStop
\* and removeStop called with any arguments.
NextApi ==
    \/ \E p \in Places, type \in RoleHints :
          Len(stops) < MaxStops /\ AddStop(p, type)
    \/ \E index \in (-1)..MaxStops, p \in Places : UpdateStop(index, p)
    \/ \E index \in (-1)..MaxStops : RemoveStop(index)

SpecApi == Init /\ [][NextApi]_vars

\* Map clicks on their own: add-stop mode, clicks at two points, the answers
\* to the lookups in any order.
NextClicks ==
    \/ EnableAddStopMode
    \/ \E c \in OrderedClickPoints :
          (isAddingStop => Len(geocodes) < MaxGeocodes) /\ HandleMapClick(c)
    \/ \E k \in 1..Len(geocodes), answer \in GeocodeAnswers :
          Len(stops) < MaxStops /\ GeocodeSettle(k, answer)

SpecClicks == Init /\ [][NextClicks]_vars

\* Long routes: one place appended over and over, any stop removed.
NextLong ==
    \/ \E p \in {CHOOSE q \in Places : q.name = "Delhi"} :
          Len(stops) < LongStops /\ AddStop(p, "stop")
    \/ \E p \in Places : Len(stops) > 0 /\ UpdateStop(0, p)
    \/ \E index \in 0..(LongStops - 1) : index < Len(stops) /\ RemoveStop(index)

SpecLong == Init /\ [][NextLong]_vars

----------------------------------------------------------------------------
(* Claims about the stop sequence *)

\* the code units of the letters 'A'..'Z'
Alphabet == 65..90

\* the role a position stands for
roleAt(index, n) ==
    IF index = 0 THEN "START"
    ELSE IF index = n - 1 /\ n > 1 THEN "END" ELSE "MID"

\* the role a marker or list entry of CSS class `type` shows
shownRole(type) ==
    IF type = "start" THEN "START" ELSE IF type = "end" THEN "END" ELSE "MID"

markerOf(k) == markers[stops[k].marker]

\* the label of position i is fromCharCode(65 + i), on the marker and in the list
LabelsFollowOrder ==
    /\ stopsList.placeholder = (Len(stops) = 0)
    /\ ~stopsList.placeholder => Len(stopsList.items) = Len(stops)
    /\ \A k \in 1..Len(stops) :
          /\ markerOf(k).label = 65 + (k - 1)
          /\ stopsList.items[k].label = 65 + (k - 1)

\* the stop list shows, for every position, the role derived from it
ListRolesDerived ==
    \A k \in 1..Len(stops) :
        shownRole(stopsList.items[k].type) = roleAt(k - 1, Len(stops))

\* C1: after any sequence of addStop, updateStop and removeStop, for stop
\* sequences of any length, the label of the stop at position i, on its marker
\* and in the stop list, is the i-th letter of the alphabet.
C1_LabelsAreLetters ==
    /\ LabelsFollowOrder
    /\ \A k \in 1..Len(stops) :
          /\ markerOf(k).label \in Alphabet
          /\ stopsList.items[k].label \in Alphabet

\* C2: after every addStop, whatever role hint was passed, the role shown for
\* every stop, on its marker and in the stop list, is the one derived from its
\* position: index 0 START, last index END when length > 1, else MID.
C2_RolesDerivedAfterAppend ==
    lastCall.op = "addStop" =>
        \A k \in 1..Len(stops) :
            /\ shownRole(markerOf(k).type) = roleAt(k - 1, Len(stops))
            /\ shownRole(stopsList.items[k].type) = roleAt(k - 1, Len(stops))

\* C3: for a stop sequence built by sequential appends, after a single
\* removeStop(i) with a valid index that leaves more than one stop, the stop at
\* index 0 shows START and the stop at the last index shows END, on the map
\* marker as well as in the stop list.
C3_EndsAfterRemove ==
    (lastCall = Call("removeStop", TRUE) /\ phase = "removed" /\ Len(stops) > 1) =>
        /\ shownRole(markerOf(1).type) = "START"
        /\ shownRole(stopsList.items[1].type) = "START"
        /\ shownRole(markerOf(Len(stops)).type) = "END"
        /\ shownRole(stopsList.items[Len(stops)].type) = "END"

\* C4: updateStop and removeStop called with an index outside 0..length-1
\* report an out-of-range condition to the caller.
C4_OutOfRangeReported ==
    (lastCall.op \in {"updateStop", "removeStop"} /\ ~lastCall.valid) =>
        signal = "OutOfRange"

----------------------------------------------------------------------------
(* Claims about the itinerary planner *)

\* the itinerary shown is the planner's result for the current route, catalog and days
Planned == lastCall.op = "generateItinerary"

\* ceil(n / d), stated without division
ceilOf(n, d) == CHOOSE q \in 0..n : q * d >= n /\ (q - 1) * d < n

emittedDays == [i \in 1..Len(itinerary.days) |-> itinerary.days[i].day]

isPoi(e) == e.kind = "poi"

\* the catalog positions of the POIs the itinerary assigns to day k
poisOfDay(k) ==
    IF \E i \in 1..Len(itinerary.days) : itinerary.days[i].day = k
    THEN LET d == itinerary.days[CHOOSE i \in 1..Len(itinerary.days) :
                                    itinerary.days[i].day = k]
             ps == SelectSeq(d.places, isPoi)
         IN [i \in 1..Len(ps) |-> ps[i].idx]
    ELSE << >>

\* the catalog positions from..to (1-based, inclusive)
positions(from, to) == [i \in 1..(to - from + 1) |-> from + i - 1]

min2(a, b) == IF a < b THEN a ELSE b

\* C5: for a catalog of n >= 1 records and tripDays d, day k holds the
\* contiguous slice of the catalog from position (k-1)*p up to k*p, with
\* p = ceil(n/d); for n = 7 and d = 3 the day sizes are 3, 3, 1.
C5_ContiguousChunks ==
    (Planned /\ Len(pois) >= 1) =>
        LET n == Len(pois)
            per == ceilOf(n, tripDays)
        IN /\ \A k \in 1..tripDays :
                 poisOfDay(k) = positions(min2((k - 1) * per, n) + 1, min2(k * per, n))
           /\ (n = 7 /\ tripDays = 3) =>
                 [i \in 1..Len(itinerary.days) |-> Len(poisOfDay(itinerary.days[i].day))]
                    = <<3, 3, 1>>

C5_Witness ==
    Planned /\ Len(pois) = 7 /\ tripDays = 3 /\ Len(itinerary.days) = 3

\* C6: whenever the route has more than one stop and the catalog is not empty,
\* the last day of the produced itinerary ends with the END stop, the last
\* stop of the route, also when trailing days are skipped.
C6_EndOnFinalDay ==
    (Planned /\ Len(stops) > 1 /\ Len(pois) >= 1) =>
        /\ Len(itinerary.days) >= 1
        /\ LET final == itinerary.days[Len(itinerary.days)].places
           IN /\ final[Len(final)].kind = "end"
              /\ final[Len(final)].name = stops[Len(stops)].name

\* C7: whenever the route and the catalog are not empty, day 1 begins with the
\* START stop, the stop at index 0, before that day's POIs, and no other day
\* carries a START entry.
C7_StartOnDayOne ==
    (Planned /\ Len(stops) >= 1 /\ Len(pois) >= 1) =>
        /\ Len(itinerary.days) >= 1
        /\ itinerary.days[1].day = 1
        /\ itinerary.days[1].places[1].kind = "start"
        /\ itinerary.days[1].places[1].name = stops[1].name
        /\ \A i \in 1..Len(itinerary.days) :
              \A j \in 1..Len(itinerary.days[i].places) :
                 itinerary.days[i].places[j].kind = "start" => (i = 1 /\ j = 1)

C7_Witness ==
    Planned /\ Len(stops) >= 1 /\ Len(pois) >= 2 /\ Len(itinerary.days) >= 2

\* C8: the day numbers of the produced itinerary increase strictly within
\* 1..tripDays, every emitted day holds at least one POI (days without POIs
\* are left out), and the emitted days are exactly 1..ceil(n/p) for
\* p = ceil(n/tripDays).
C8_DayNumbers ==
    (Planned /\ Len(pois) >= 1) =>
        LET n == Len(pois)
            per == ceilOf(n, tripDays)
        IN /\ \A i \in 1..Len(emittedDays) : emittedDays[i] \in 1..tripDays
           /\ \A i \in 1..(Len(emittedDays) - 1) : emittedDays[i] < emittedDays[i + 1]
           /\ \A i \in 1..Len(itinerary.days) :
                 /\ Len(itinerary.days[i].places) >= 1
                 /\ \E j \in 1..Len(itinerary.days[i].places) :
                       itinerary.days[i].places[j].kind = "poi"
           /\ emittedDays = positions(1, ceilOf(n, per))

C8_Witness ==
    Planned /\ Len(pois) >= 2 /\ Len(itinerary.days) >= 2
        /\ Len(itinerary.days) < tripDays

\* C9: when the catalog is empty at planning time, for any tripDays and any
\* stops, the planner yields the 'nothing to plan' result and no day entries.
C9_NothingToPlan ==
    (Planned /\ Len(pois) = 0) =>
        /\ itinerary.rendered
        /\ itinerary.empty
        /\ itinerary.days = << >>

C9_Witness ==
    Planned /\ Len(pois) = 0 /\ Len(stops) >= 2 /\ tripDays = 1

\* the planner's result is either the 'nothing to plan' result or a day list
C9_EmptyOnlyWithoutPois ==
    Planned => (itinerary.empty <=> Len(pois) = 0)

----------------------------------------------------------------------------
(* Claims about the sampling of the route *)

\* an explore has just passed its precondition and issued its queries
Sampled == lastCall = Call("explorePlaces", TRUE)

\* C10: for a route of N >= 1 stops the query locations of an explore are the
\* N stops and, for each of the N-1 consecutive pairs, 3 points at the
\* fractions 1/4, 2/4, 3/4 between the pair, each coordinate blended linearly:
\* N + 3*(N-1) locations, 5 for two stops, the stop alone for one stop.
C10_SearchPoints ==
    (Sampled /\ Len(stops) >= 1) =>
        LET n == Len(stops)
        IN /\ Len(searchPoints) = n + 3 * (n - 1)
           /\ \A k \in 1..n :
                 /\ searchPoints[k].lat = stops[k].lat
                 /\ searchPoints[k].lon = stops[k].lon
           /\ \A j \in 1..(n - 1) : \A i \in 1..3 :
                 LET pt == searchPoints[n + 3 * (j - 1) + i]
                 IN /\ 4 * (pt.lat - stops[j].lat) = i * (stops[j + 1].lat - stops[j].lat)
                    /\ 4 * (pt.lon - stops[j].lon) = i * (stops[j + 1].lon - stops[j].lon)
           /\ n = 2 => Len(searchPoints) = 5
           /\ n = 1 => searchPoints = << point(stops[1]) >>
           /\ \A q \in fetches :
                 /\ q.point \in 1..Len(searchPoints)
                 /\ q.lat = searchPoints[q.point].lat
                 /\ q.lon = searchPoints[q.point].lon

C10_Witness ==
    /\ Sampled
    /\ Len(stops) = 2
    /\ stops[1].lat # stops[2].lat
    /\ Len(searchPoints) = 5

C10_WitnessThreeStops ==
    Sampled /\ Len(stops) = 3 /\ Len(searchPoints) = 9 /\ stops[2].lat # stops[3].lat

----------------------------------------------------------------------------
(* Claims about an explore: its queries, their completion, the catalog *)

\* the coordinates the queries in flight ask about
queryLocations == { <<q.lat, q.lon>> : q \in fetches }

\* C11: when the route has 0 stops at explore time, the query locations are
\* exactly the single fallback coordinate, the last chosen destination, if one
\* is present, and empty otherwise; also when the destination's stop was
\* removed from the route after it was chosen.
C11_FallbackLocation ==
    (lastCall.op = "explorePlaces" /\ Len(stops) = 0) =>
        IF currentDestination.set
        THEN /\ lastCall.valid
             /\ searchPoints = << point(currentDestination) >>
             /\ queryLocations = { <<currentDestination.lat, currentDestination.lon>> }
        ELSE /\ ~lastCall.valid
             /\ queryLocations = {}

C11_Witness ==
    /\ Sampled
    /\ Len(stops) = 0
    /\ currentDestination.set
    /\ phase # "appends"
    /\ Cardinality(fetches) = 3

\* C12: an explore issues exactly one query for each pair (query location,
\* category) of the locations sampled at its start and the categories selected
\* at its start: |locations| * |selectedCategories| queries, no pair twice,
\* none skipped.
C12_OneQueryPerPair ==
    Sampled =>
        /\ searchPoints = sample(stops, currentDestination)
        /\ Cardinality(fetches) = Len(searchPoints) * Cardinality(selectedCategories)
        /\ \A k \in 1..Len(searchPoints), c \in selectedCategories :
              Cardinality({q \in fetches : q.point = k /\ q.category = c}) = 1
        /\ \A q \in fetches :
              q.point \in 1..Len(searchPoints) /\ q.category \in selectedCategories

C12_Witness ==
    /\ Sampled
    /\ Len(searchPoints) = 5
    /\ Cardinality(selectedCategories) = 1
    /\ Cardinality(fetches) = 5

C12_WitnessThreeCategories ==
    Sampled /\ Len(searchPoints) = 1 /\ Cardinality(fetches) = 3

\* C13: the itinerary of an explore is generated only after every query the
\* explore issued has settled, in whatever order they complete, and nothing is
\* in flight, so nothing is ingested, once it was generated.
C13_PlanAfterAllSettled ==
    /\ Planned => fetches = {}
    /\ ~busy => fetches = {}

C13_Witness ==
    /\ Planned
    /\ Len(searchPoints) = 5
    /\ tally.failed
    /\ Len(pois) = 2
    /\ pois[1].category = "cafe"

\* C14: a query that fails neither ends the explore nor reports anything; what
\* the queries that succeeded returned is in the catalog, and the itinerary is
\* generated from the catalog as it is when all have settled.
C14_FailuresDoNotBlock ==
    /\ lastCall = Call("fetchPOIs", FALSE) => (busy /\ signal = "none")
    /\ busy => Len(pois) = tally.returned
    /\ Planned =>
          /\ Len(pois) = tally.returned
          /\ itinerary = generateItinerary(stops, pois, tripDays)

C14_Witness ==
    /\ Planned
    /\ tally.failed
    /\ tally.returned >= 1
    /\ ~itinerary.empty
    /\ Len(itinerary.days) >= 1

C14_WitnessFailureMidway ==
    lastCall = Call("fetchPOIs", FALSE) /\ Len(pois) >= 1 /\ fetches # {}

\* C15: no query of an earlier explore is in flight once a later explore has
\* cleared the catalog, and no result of such a query has been ingested: the
\* catalog holds only what the last explore's own queries returned.
C15_NoLateIngestion ==
    /\ ~tally.late
    /\ \A q \in fetches : ~q.stale

C15_Witness ==
    /\ busy
    /\ itinerary.rendered
    /\ ~itinerary.empty
    /\ lastCall = Call("fetchPOIs", TRUE)
    /\ Len(pois) >= 1

\* C16: an explore that passes its precondition has emptied the catalog when
\* its queries are issued.
C16_ClearBeforeQueries ==
    Sampled => (pois = << >> /\ tally.returned = 0)

C16_Witness ==
    Sampled /\ itinerary.rendered /\ ~itinerary.empty /\ fetches # {}

\* C17: an explore triggered with no stops and no destination reports the
\* precondition failure and changes nothing else: the catalog is not cleared,
\* no query is issued, the busy state is not entered, no itinerary is generated.
C17_NotAttempted ==
    [][ (Len(stops) = 0 /\ ~currentDestination.set /\ lastCall'.op = "explorePlaces") =>
           /\ ~lastCall'.valid
           /\ signal' = "Please select a destination first"
           /\ pois' = pois
           /\ fetches' = fetches /\ fetches' = {}
           /\ busy' = busy /\ ~busy'
           /\ itinerary' = itinerary ]_vars

C17_Witness ==
    /\ lastCall = Call("explorePlaces", FALSE)
    /\ signal = "Please select a destination first"
    /\ Len(pois) >= 1
    /\ itinerary.rendered

\* what a catalog holds, without how its records are displayed
records(catalog) ==
    [k \in 1..Len(catalog) |->
        [category |-> catalog[k].category, budget |-> catalog[k].budget,
         lat |-> catalog[k].lat, lon |-> catalog[k].lon]]

isPrefix(a, b) == Len(a) <= Len(b) /\ \A k \in 1..Len(a) : a[k] = b[k]

\* C18: but for the clear of an explore, every step keeps the records of the
\* catalog, in their order, and may only append to them; a budget change and
\* a visibility toggle leave size, contents and order as they are.
C18_CatalogOnlyGrows ==
    [][ /\ lastCall' # Call("explorePlaces", TRUE) =>
              isPrefix(records(pois), records(pois'))
        /\ lastCall'.op \in {"handleBudgetChange", "toggleCategoryMarkers"} =>
              records(pois') = records(pois) ]_vars

C18_Witness ==
    /\ lastCall.op = "toggleCategoryMarkers"
    /\ Len(pois) = 2
    /\ pois[1].opacity = 0
    /\ pois[2].opacity = 1

\* the records displayed as within budget
shown(catalog) == SelectSeq(catalog, LAMBDA m : m.opacity = 5)

levels(catalog) == [k \in 1..Len(catalog) |-> catalog[k].budget]

\* C19: after the budget filter ran with level L, the records shown as within
\* budget are the records of level <= L, in catalog order, the others are
\* dimmed; of the levels 1, 2, 3, 4 with L = 2 these are the levels 1 and 2.
C19_WithinBudget ==
    lastCall.op = "handleBudgetChange" =>
        /\ shown(pois) = SelectSeq(pois, LAMBDA m : m.budget <= budget)
        /\ \A k \in 1..Len(pois) : pois[k].opacity \in {1, 5}
        /\ (levels(pois) = <<1, 2, 3, 4>> /\ budget = 2) => levels(shown(pois)) = <<1, 2>>

C19_Witness ==
    /\ lastCall.op = "handleBudgetChange"
    /\ budget = 2
    /\ levels(pois) = <<1, 2, 3, 4>>
    /\ levels(shown(pois)) = <<1, 2>>

\* C20: the catalog holds one record for every entry a successful query
\* returned since the clear; nothing is merged, a place that k queries
\* returned is there k times.
C20_NoDeduplication == Len(pois) = tally.returned

C20_Witness ==
    /\ Planned
    /\ Len(pois) = 2
    /\ records(pois)[1] = records(pois)[2]
    /\ tally.returned = 2

----------------------------------------------------------------------------
(* Claims about the outcome of an explore *)

NoPlacesFound == signal = "No places found in this area"

\* C21: the 'no places found' outcome is raised exactly by an explore whose
\* catalog is empty when all its queries have settled; failed queries do not
\* raise it while a record was ingested.
C21_NoPlacesIffEmpty ==
    /\ Planned => (NoPlacesFound <=> Len(pois) = 0)
    /\ NoPlacesFound => (Planned /\ tally.returned = 0)
    /\ (Planned /\ tally.failed /\ Len(pois) >= 1) => signal = "none"

C21_Witness ==
    Planned /\ tally.failed /\ Len(pois) >= 1 /\ signal = "none"

C21_WitnessEmpty ==
    Planned /\ tally.answered /\ ~tally.failed /\ Len(pois) = 0 /\ NoPlacesFound

\* C22: an explore all of whose queries failed does not end in the 'no places
\* found' outcome, the outcome of an explore whose queries succeeded with
\* empty results.
C22_FailureDistinctFromEmpty ==
    (Planned /\ tally.failed /\ ~tally.answered) => ~NoPlacesFound

----------------------------------------------------------------------------
(* Claims about the route line, the stop edits and the route distance *)

coordinates(route) == [k \in 1..Len(route) |-> <<route[k].lat, route[k].lon>>]

\* the line on the map is the line through the current stops, if they are two or more
PolylineDrawn ==
    IF Len(stops) >= 2
    THEN polyline.set /\ polyline.onMap /\ polyline.latlngs = coordinates(stops)
    ELSE ~polyline.onMap

\* C23: with N stops, N >= 2: one route polyline is drawn, its N vertices are
\* the stop coordinates in order; N < 2: none is drawn and state.route.polyline
\* holds no polyline of an earlier route.
C23_RoutePolyline ==
    /\ PolylineDrawn
    /\ Len(stops) < 2 => ~polyline.set

\* the pairwise distance the claims speak of
distanceKm(a, b) == haversineDistance(a.lat, a.lon, b.lat, b.lon)

\* the sum of distanceKm over the consecutive pairs (i, i+1), i = 1..n-1
RECURSIVE sumOfPairs(_, _)
sumOfPairs(route, n) ==
    IF n < 2 THEN 0
    ELSE sumOfPairs(route, n - 1) + distanceKm(route[n - 1], route[n])

\* C24: the route distance is 0 for fewer than 2 stops, and otherwise the sum
\* of the pairwise distance over the N-1 consecutive pairs of the current
\* stops, rounded to the nearest whole km.
C24_RouteDistance ==
    Planned =>
        IF Len(stops) < 2
        THEN itinerary.distance = 0
        ELSE LET total == sumOfPairs(stops, Len(stops))
             IN /\ Unit * itinerary.distance - total <= Unit \div 2
                /\ total - Unit * itinerary.distance <= Unit \div 2

C24_Witness ==
    /\ Planned
    /\ Len(stops) = 3
    /\ stops[1].lat # stops[2].lat
    /\ itinerary.distance > 0

\* C30: the distance is symmetric, and zero between a point and itself.
C30_SymmetricAndZero ==
    probe.done => (probe.ab = probe.ba /\ probe.aa = 0)

C30_Witness ==
    /\ probe.done
    /\ probe.a[1] # probe.b[1]
    /\ probe.a[2] # probe.b[2]
    /\ probe.ab = probe.ba
    /\ probe.ab > 0

\* what a stop is: its coordinate and its name
place(stop) == [lat |-> stop.lat, lon |-> stop.lon, name |-> stop.name]

\* label and role shown for position k of route r, on the marker and in the list
shownAt(r, k) ==
    [markerLabel |-> r.markers[r.stops[k].marker].label,
     markerRole |-> r.markers[r.stops[k].marker].type,
     listLabel |-> r.stopsList.items[k].label,
     listRole |-> r.stopsList.items[k].type]

\* C25: updateStop(i, coord, name) with a valid index gives the stop at i the
\* coordinate and the name and changes nothing else: the number of stops, every
\* other stop, and the label and role of every stop stay as they are.
C25_UpdateStopFrame ==
    \A index \in 0..(Len(stops) - 1), p \in Places :
        LET r == updateStop(RouteState, index, p.lat, p.lon, p.name)
        IN /\ Len(r.stops) = Len(stops)
           /\ place(r.stops[index + 1]) = p
           /\ \A k \in 1..Len(stops) :
                 /\ k # index + 1 => r.stops[k] = stops[k]
                 /\ r.stops[k].marker = stops[k].marker
                 /\ shownAt(r, k) = shownAt(RouteState, k)

C25_Witness ==
    /\ lastCall = Call("updateStop", TRUE)
    /\ Len(stops) = 3
    /\ stops[2].name # stops[1].name
    /\ stops[2].name # stops[3].name

\* C26: removeStop(i) with a valid index removes the stop at position i and no
\* other: one stop less, the stops before i and after i keep coordinate, name
\* and order.
C26_RemoveExactlyOne ==
    \A index \in 0..(Len(stops) - 1) :
        LET r == removeStop(RouteState, index)
        IN /\ Len(r.stops) = Len(stops) - 1
           /\ \A k \in 1..(Len(stops) - 1) :
                 place(r.stops[k]) = place(stops[IF k <= index THEN k ELSE k + 1])

C26_Witness ==
    /\ lastCall = Call("removeStop", TRUE)
    /\ phase = "removed"
    /\ Len(stops) = 2
    /\ stops[1].name # stops[2].name

----------------------------------------------------------------------------
(* Claims about the day count, the map click and the end of an explore *)

\* C27: the day count stays within 1..30: every adjustDays moves it by one, or
\* leaves it where it is at 1 (decrease) and at 30 (increase); the planner
\* never runs with 0 days.
C27_DaysWithinRange ==
    [][ /\ tripDays \in 1..30
        /\ tripDays' \in 1..30
        /\ lastCall'.op = "adjustDays" =>
              \/ tripDays' = tripDays + 1
              \/ tripDays' = tripDays - 1
              \/ tripDays' = tripDays /\ tripDays \in {1, 30}
        /\ lastCall'.op = "generateItinerary" => (tripDays' = tripDays /\ tripDays # 0) ]_vars

C27_Witness ==
    /\ lastCall.op = "adjustDays"
    /\ tripDays = 30

C27_WitnessPlannedAtOne ==
    Planned /\ tripDays = 1 /\ Len(pois) >= 2 /\ Len(itinerary.days) = 1

\* C28: a map click whose reverse geocoding fails still adds its stop: when a
\* request settles, exactly one stop is appended at the clicked coordinates,
\* named by the answer, or 'Unknown location' when the lookup gave no name.
C28_FailedLookupStillAdds ==
    [][ Len(geocodes') < Len(geocodes) =>
          \E k \in 1..Len(geocodes), answer \in GeocodeAnswers :
              /\ geocodes' = splice1(geocodes, k - 1)
              /\ Len(stops') = Len(stops) + 1
              /\ \A i \in 1..Len(stops) : place(stops'[i]) = place(stops[i])
              /\ place(stops'[Len(stops')]) =
                    [lat |-> geocodes[k].lat, lon |-> geocodes[k].lon,
                     name |-> IF answer = "" THEN "Unknown location" ELSE answer] ]_vars

C28_Witness ==
    /\ lastCall.op = "addStop"
    /\ Len(stops) >= 1
    /\ stops[Len(stops)].name = "Unknown location"

\* C29: an explore that passed its precondition finishes: from every state
\* where the explore button is disabled, a state is reached where the
\* planner has run and the button is enabled again, whichever of the queries
\* failed, provided every query settles.
C29_ExploreFinishes == busy ~> (~busy /\ Planned)

C29_Witness ==
    /\ Planned
    /\ ~busy
    /\ tally.failed
    /\ tally.answered
    /\ fetches = {}

C29_WitnessAllFailed ==
    Planned /\ ~busy /\ tally.failed /\ ~tally.answered /\ Len(searchPoints) = 5

----------------------------------------------------------------------------
(* Claims about place selection, map clicks and the alignment of the route *)

\* C31: selecting an origin and a destination commute: from the empty route,
\* origin then destination and destination then origin both give a route of
\* exactly two stops, the origin at index 0 and the destination at the last
\* index.
C31_SelectionsCommute ==
    Len(stops) = 0 =>
        \A origin \in Places, destination \in Places :
            LET originFirst ==
                    selectLocation(selectLocation(RouteState, origin, "origin"),
                                   destination, "destination")
                destinationFirst ==
                    selectLocation(selectLocation(RouteState, destination, "destination"),
                                   origin, "origin")
            IN \A r \in {originFirst, destinationFirst} :
                  /\ Len(r.stops) = 2
                  /\ place(r.stops[1]) = origin
                  /\ place(r.stops[Len(r.stops)]) = destination

\* the half of C31 the code keeps: origin first, destination second
C31_OriginFirst ==
    Len(stops) = 0 =>
        \A origin \in Places, destination \in Places :
            LET r == selectLocation(selectLocation(RouteState, origin, "origin"),
                                    destination, "destination")
            IN /\ Len(r.stops) = 2
               /\ place(r.stops[1]) = origin
               /\ place(r.stops[2]) = destination

\* the stop lies at a point of the map that was clicked, not at a selected place
clicked(stop) == \E c \in ClickPoints : c.lat = stop.lat /\ c.lon = stop.lon

\* C32: a stop added by a map click is never overwritten by a place selection:
\* a selection of an origin or a destination leaves every clicked stop at its
\* index with its coordinates and its name.
C32_ClickedStopsKept ==
    [][ lastCall'.op = "selectLocation" =>
          \A k \in 1..Len(stops) :
              clicked(stops[k]) =>
                  /\ k <= Len(stops')
                  /\ place(stops'[k]) = place(stops[k]) ]_vars

\* C32, first half: a stop added by a map click is an intermediate stop
C32_ClickedStopsIntermediate ==
    \A k \in 1..Len(stops) : clicked(stops[k]) => (1 < k /\ k < Len(stops))

\* the marker's level is above the selected budget
overBudget(m, level) == (IF m.budget = 0 THEN 2 ELSE m.budget) > level

\* C33: the visibility of a POI marker follows from the filter settings alone,
\* whatever the order of the changes: a marker hidden by its category's
\* checkbox stays hidden over a budget change, and a marker over the selected
\* budget is not shown at full opacity by a toggle of its category.
C33_VisibilityFromSettings ==
    [][ /\ Len(pois') = Len(pois)
        /\ lastCall'.op = "handleBudgetChange" =>
              \A k \in 1..Len(pois) : pois[k].opacity = 0 => pois'[k].opacity = 0
        /\ lastCall'.op = "toggleCategoryMarkers" =>
              \A k \in 1..Len(pois) :
                  overBudget(pois[k], budget) => pois'[k].opacity # 5 ]_vars

\* C33, first case alone: hidden markers stay hidden over a budget change
C33_HiddenStaysHidden ==
    [][ lastCall'.op = "handleBudgetChange" =>
          \A k \in 1..Len(pois) : pois[k].opacity = 0 => pois'[k].opacity = 0 ]_vars

\* C33, second case alone: a toggle never shows a marker over the budget in full
C33_DimmedStaysDimmed ==
    [][ lastCall'.op = "toggleCategoryMarkers" =>
          \A k \in 1..Len(pois) :
              overBudget(pois[k], budget) => pois'[k].opacity # 5 ]_vars

C34_ItineraryOfCurrentRoute ==
    Planned => itinerary = generateItinerary(stops, pois, tripDays)

\* C35: stops added by successive map clicks appear in the stop sequence in
\* click order, whatever the order of the answers to their lookups: the stop a
\* settled lookup appends is the stop of the earliest click still waiting.
C35_ClickOrder ==
    [][ Len(geocodes') < Len(geocodes) =>
          /\ Len(stops') = Len(stops) + 1
          /\ stops'[Len(stops')].lat = geocodes[1].lat
          /\ stops'[Len(stops')].lon = geocodes[1].lon ]_vars

\* what holds instead: stops appear in the order of the answers
C35_AnswerOrder ==
    [][ Len(geocodes') < Len(geocodes) =>
          \E k \in 1..Len(geocodes) :
              /\ geocodes' = splice1(geocodes, k - 1)
              /\ Len(stops') = Len(stops) + 1
              /\ stops'[Len(stops')].lat = geocodes[k].lat
              /\ stops'[Len(stops')].lon = geocodes[k].lon ]_vars

----------------------------------------------------------------------------
(* Further claims about the planner, the markers and invalid indices *)

\* the catalog positions of the POIs of the emitted days i.., in day order
RECURSIVE plannedFrom(_)
plannedFrom(i) ==
    IF i > Len(itinerary.days)
    THEN << >>
    ELSE LET ps == SelectSeq(itinerary.days[i].places, isPoi)
         IN [j \in 1..Len(ps) |-> ps[j].idx] \o plannedFrom(i + 1)

\* C36: the day partition loses and duplicates nothing: for a catalog of
\* n >= 1 records and tripDays in 1..30, the POIs of the emitted days, taken in
\* day order, are exactly the catalog in ingestion order, each record once.
C36_PartitionComplete ==
    (Planned /\ Len(pois) >= 1) =>
        /\ tripDays \in 1..30
        /\ plannedFrom(1) = positions(1, Len(pois))
        /\ \A i \in 1..(Len(itinerary.days) - 1) :
              itinerary.days[i].day < itinerary.days[i + 1].day

C36_Witness ==
    /\ Planned
    /\ Len(pois) = 7
    /\ tripDays = 2
    /\ Len(itinerary.days) = 2
    /\ plannedFrom(1) = <<1, 2, 3, 4, 5, 6, 7>>

C36_WitnessMoreDaysThanPois ==
    Planned /\ Len(pois) = 3 /\ tripDays = 30 /\ Len(itinerary.days) = 3

\* C37: after any sequence of addStop, updateStop and removeStop, with valid
\* or invalid indices, state.markers.stops has the length of state.route.stops
\* and its i-th element is the marker of the i-th stop, a marker on the map.
C37_MarkersAligned ==
    /\ Len(markerStops) = Len(stops)
    /\ \A i \in 1..Len(stops) :
          /\ markerStops[i] = stops[i].marker
          /\ markerStops[i] \in DOMAIN markers

C37_Witness ==
    /\ lastCall = Call("removeStop", TRUE)
    /\ phase = "edited"
    /\ Len(stops) = 2
    /\ Len(markerStops) = 2
    /\ stops[1].name = "Agra"

C37_WitnessInvalidIndex ==
    /\ lastCall.op \in {"updateStop", "removeStop"}
    /\ ~lastCall.valid
    /\ Len(markerStops) = 3

\* C38: a map click in add-stop mode turns the mode off and issues one lookup,
\* and the lookup appends exactly one stop when it settles; a click outside
\* the mode changes nothing; a lookup is issued by nothing but a click in the
\* mode, so one activation of the mode adds at most one stop.
C38_OneStopPerActivation ==
    [][ /\ lastCall'.op = "handleMapClick" =>
              /\ stops' = stops
              /\ IF isAddingStop
                 THEN ~isAddingStop' /\ Len(geocodes') = Len(geocodes) + 1
                 ELSE ~isAddingStop' /\ geocodes' = geocodes
        /\ Len(geocodes') > Len(geocodes) =>
              lastCall'.op = "handleMapClick" /\ isAddingStop /\ ~isAddingStop'
        /\ Len(geocodes') < Len(geocodes) =>
              Len(geocodes') = Len(geocodes) - 1 /\ Len(stops') = Len(stops) + 1
        /\ stops' # stops =>
              Len(geocodes') = Len(geocodes) - 1 /\ Len(stops') = Len(stops) + 1 ]_vars

C38_Witness ==
    /\ lastCall = Call("addStop", TRUE)
    /\ Len(stops) = 2
    /\ ~isAddingStop
    /\ geocodes = << >>
    /\ stops[1].lat # stops[2].lat

C38_WitnessClickOutsideMode ==
    lastCall = Call("handleMapClick", FALSE) /\ Len(stops) = 1 /\ geocodes = << >>

\* C39: updateStop and removeStop called with an invalid index leave the whole
\* route state unchanged: the stops with their order, coordinates and names,
\* the markers, the polyline, and the rendered stop list.
C39_InvalidIndexChangesNothing ==
    [][ (lastCall'.op \in {"updateStop", "removeStop"} /\ ~lastCall'.valid) =>
          /\ stops' = stops
          /\ markerStops' = markerStops
          /\ markers' = markers
          /\ polyline' = polyline
          /\ stopsList' = stopsList ]_vars

C39_Witness ==
    /\ lastCall = Call("updateStop", FALSE)
    /\ Len(stops) = 2
    /\ polyline.onMap
    /\ stops[1].name # stops[2].name

C39_WitnessRemove ==
    lastCall = Call("removeStop", FALSE) /\ Len(stops) = 1 /\ polyline.set

====
